---- MODULE Spec2Model ----
(***************************************************************************)
(* Token lifecycle of rspotify's AuthCodePkceSpotify client                *)
(* (src/src/auth_code_pkce.rs) and of Token (src/src/lib.rs).              *)
(*                                                                         *)
(* A text (a scope, a URL parameter) is the sequence of its words, the      *)
(* words being what whitespace separates.  A Duration and an instant are   *)
(* counted in ticks, TicksPerSecond of them to the second.                 *)
(*                                                                         *)
(* One client instance is shared by a set of callers.  The client owns     *)
(* token: RwLock<Option<Token>>; callers run get_token, auto_reauth,       *)
(* refresh_token, request_token and get_token_mut against it.  Every       *)
(* caller is a task on an executor thread: a task that sits inside a       *)
(* blocking std::sync::RwLock acquisition keeps its thread, a task that    *)
(* awaits the token endpoint gives it up.                                  *)
(*                                                                         *)
(* Option<T> is a sequence of length 0 (None) or 1 (Some).                 *)
(***************************************************************************)
EXTENDS Integers, Sequences, FiniteSets, TLC

VARIABLES
    config,      \* Config of the client: token_refreshing, token_cached
    thread,      \* executor thread every caller's task runs on
    token,       \* the store: Option<Token> inside the RwLock
    lock,        \* the RwLock: writer (0 = none), readers, poisoned
    cache,       \* the cache file: Option<sequence of JSON documents>
    now,         \* the clock, in ticks
    pc,          \* position of every caller
    op,          \* operation every caller is running (or ran last)
    arg,         \* refresh token a caller's exchange was sent with
    answer,      \* what the token endpoint answered a caller
    fetched,     \* token a caller's exchange returned (fetched_token)
    view,        \* what a caller read through its read guard
    result,      \* outcome of a caller's last operation
    exchanges,   \* requests received by the token endpoint, in total
    calls,       \* operations started, in total
    boot,        \* the store as the constructor left it
    defaulted,   \* the stored token was built without an explicit expires_at
    expired,     \* answer of the last is_expired() call
    creds,       \* Credentials of the client: id, secret
    oauth,       \* OAuth of the client: redirect_uri, state, scopes
    url,         \* the authorize URL get_authorize_url returned last
    callback,    \* the redirect URL the user's browser came back with
    code,        \* what parse_response_code made of the callback
    form,        \* the form request_token sent to the token endpoint last
    loaded,      \* the builder TokenBuilder::from_cache returned last
    wrote        \* outcome of the last Token::write_cache

vars == <<config, thread, token, lock, cache, now, pc, op, arg, answer,
          fetched, view, result, exchanges, calls, boot, defaulted, expired,
          creds, oauth, url, callback, code, form, loaded, wrote>>

----------------------------------------------------------------------------
(* Bounds of the model *)

NumCallers == 2
MaxCalls == 2
MaxTicks == 2
MaxTime == 6
TicksPerSecond == 2

Callers == 1..NumCallers
Threads == 1..NumCallers

----------------------------------------------------------------------------
(* Option *)

None == <<>>
Some(x) == <<x>>
IsSome(o) == o # <<>>
Unwrap(o) == o[1]

----------------------------------------------------------------------------
(* Token (lib.rs) *)

RefreshTokens == {"rtok", "rotated"}
ExpiresIns == {1}

MkToken(a, ein, eat, rt, sc) ==
    [access_token |-> a, expires_in |-> ein, expires_at |-> eat,
     refresh_token |-> rt, scope |-> sc]

\* Duration::seconds(n)
seconds(n) == n * TicksPerSecond

\* Duration::num_seconds(): the whole seconds of a Duration
num_seconds(d) == d \div TicksPerSecond

\* DateTime::timestamp(): whole seconds since the epoch
timestamp(t) == t \div TicksPerSecond

\* a slip: the comparison is the wrong way round
is_expired_reversed(tok) ==
    IF IsSome(tok.expires_at)
    THEN timestamp(now) < timestamp(Unwrap(tok.expires_at))
    ELSE TRUE

\* Token::is_expired
is_expired(tok) ==
    IF IsSome(tok.expires_at)
    THEN timestamp(now) > timestamp(Unwrap(tok.expires_at))
    ELSE TRUE

\* Token::can_reauth
can_reauth(tok) == IsSome(tok.refresh_token)

----------------------------------------------------------------------------
(* Token endpoint *)

\* the endpoint issues a fresh access token for every request it has received
AccessTokens == {exchanges}

ErrResponse ==
    [ok |-> FALSE, access_token |-> 0, expires_in |-> 0,
     refresh_token |-> None, scope |-> {}]

OkResponses ==
    [ok : {TRUE}, access_token : AccessTokens, expires_in : ExpiresIns,
     refresh_token : {None, Some("rotated")}, scope : {{<<"user-read">>}}]

Responses == {ErrResponse} \cup OkResponses

\* fetch_access_token: the Token parsed from the endpoint's answer
\* (expires_in in whole seconds), its expires_at set to now + expires_in
fetch_access_token(r) ==
    MkToken(r.access_token, seconds(r.expires_in),
            Some(now + seconds(r.expires_in)), r.refresh_token, r.scope)

\* a slip: the refresh token of the response is kept as it came
refetch_token_keep(r, refresh_token) == fetch_access_token(r)

\* a slip: the refresh token of the response is taken when it carries one
refetch_token_rotates(r, refresh_token) ==
    IF IsSome(r.refresh_token) THEN fetch_access_token(r)
    ELSE [fetch_access_token(r) EXCEPT !.refresh_token = Some(refresh_token)]

\* a slip: the access token of the stored token is patched in place
refetch_token_patch(r, refresh_token) ==
    IF IsSome(token)
    THEN [Unwrap(token) EXCEPT !.access_token = r.access_token,
                               !.refresh_token = Some(refresh_token)]
    ELSE [fetch_access_token(r) EXCEPT !.refresh_token = Some(refresh_token)]

\* refetch_token: the fetched token with the refresh token re-attached
refetch_token(r, refresh_token) ==
    [fetch_access_token(r) EXCEPT !.refresh_token = Some(refresh_token)]

----------------------------------------------------------------------------
(* Cache file (lib.rs) *)

IOOutcomes == {"ok", "open", "set_len", "write_all"}

\* orders in which a HashSet can hand out its elements
Orders(S) ==
    {f \in [1..Cardinality(S) -> S] : \A i, j \in 1..Cardinality(S) :
                                           i # j => f[i] # f[j]}

\* join(" ") of a list of texts
RECURSIVE join(_)
join(list) == IF list = <<>> THEN <<>> ELSE Head(list) \o join(Tail(list))

\* split_whitespace().collect(): every word is a scope of its own
split_whitespace(text) == {<<text[i]>> : i \in DOMAIN text}

\* serde_json::to_string(&Token): expires_in through duration_second (whole
\* seconds), scope through space_separated_scope (joined in the order ord)
to_string(tok, ord) ==
    [access_token |-> tok.access_token,
     expires_in |-> num_seconds(tok.expires_in),
     expires_at |-> tok.expires_at, refresh_token |-> tok.refresh_token,
     scope |-> join(ord)]

\* serde_json::from_str::<Token>: the inverse conversions
from_str(doc) ==
    MkToken(doc.access_token, seconds(doc.expires_in), doc.expires_at,
            doc.refresh_token, split_whitespace(doc.scope))

\* a slip: the file is opened for append and never truncated
write_cache_append(file, doc, io) ==
    CASE io = "open" -> file
      [] io = "set_len" -> IF IsSome(file) THEN file ELSE Some(<<>>)
      [] io = "write_all" -> IF IsSome(file) THEN file ELSE Some(<<>>)
      [] OTHER -> IF IsSome(file) THEN Some(Append(Unwrap(file), doc))
                  ELSE Some(<<doc>>)

\* Token::write_cache: the file after open(create), set_len(0), write_all,
\* the first of them to fail being io
write_cache(file, doc, io) ==
    CASE io = "open" -> file
      [] io = "set_len" -> IF IsSome(file) THEN file ELSE Some(<<>>)
      [] io = "write_all" -> Some(<<>>)
      [] OTHER -> Some(<<doc>>)

ReadOutcomes == {"ok", "open", "read_to_string"}

\* TokenBuilder::default(): no field set
TokenBuilder_default ==
    [access_token |-> None, expires_in |-> None, expires_at |-> None,
     refresh_token |-> None, scope |-> None]

\* a slip: the first JSON document of the file is taken, whatever follows it
from_cache_lenient(file, io) ==
    IF ~IsSome(file) \/ io = "open" THEN TokenBuilder_default
    ELSE IF io = "read_to_string" THEN TokenBuilder_default
    ELSE IF Len(Unwrap(file)) = 0 THEN TokenBuilder_default
    ELSE LET tok == from_str(Unwrap(file)[1])
         IN  [access_token |-> Some(tok.access_token),
              expires_in |-> Some(tok.expires_in),
              expires_at |-> Some(tok.expires_at),
              refresh_token |-> Some(tok.refresh_token),
              scope |-> Some(tok.scope)]

\* TokenBuilder::from_cache: open, read_to_string and from_str, the first of
\* them to fail being io; a file that is not exactly one JSON document does
\* not parse
from_cache(file, io) ==
    IF ~IsSome(file) \/ io = "open" THEN TokenBuilder_default
    ELSE IF io = "read_to_string" THEN TokenBuilder_default
    ELSE IF Len(Unwrap(file)) # 1 THEN TokenBuilder_default
    ELSE LET tok == from_str(Unwrap(file)[1])
         IN  [access_token |-> Some(tok.access_token),
              expires_in |-> Some(tok.expires_in),
              expires_at |-> Some(tok.expires_at),
              refresh_token |-> Some(tok.refresh_token),
              scope |-> Some(tok.scope)]

\* TokenBuilder::build(): Err without an access_token, the defaults of the
\* fields that were not set
build(b) ==
    IF ~IsSome(b.access_token) THEN None
    ELSE Some(MkToken(Unwrap(b.access_token),
                      IF IsSome(b.expires_in) THEN Unwrap(b.expires_in)
                      ELSE seconds(0),
                      IF IsSome(b.expires_at) THEN Unwrap(b.expires_at)
                      ELSE Some(now),
                      IF IsSome(b.refresh_token) THEN Unwrap(b.refresh_token)
                      ELSE None,
                      IF IsSome(b.scope) THEN Unwrap(b.scope) ELSE {}))

\* write_token_cache: nothing unless caching is on and a token is stored
write_token_cache(io, ord) ==
    IF config.token_cached /\ IsSome(token)
    THEN write_cache(cache, to_string(Unwrap(token), ord), io)
    ELSE cache

write_token_cache_ok(io) ==
    ~config.token_cached \/ ~IsSome(token) \/ io = "ok"

StoredOrders == IF IsSome(token) THEN Orders(Unwrap(token).scope) ELSE {<<>>}

----------------------------------------------------------------------------
(* RwLock<Option<Token>> and the executor *)

\* a slip: a writer is let in while readers hold the lock
write_free_readers == lock.writer = 0

\* RwLock::write() returns: no writer, no reader
write_free == lock.writer = 0 /\ lock.readers = {}

\* RwLock::read() returns: no writer
read_free == lock.writer = 0

\* the store can be read by p: nobody else holds it for writing
store_readable(p) == lock.writer \in {0, p}

\* positions at which a task does not occupy its thread
Suspended ==
    {"idle", "panicked", "view", "gm_held",
     "ar_exchange", "rt_exchange", "rq_exchange"}

\* positions inside a blocking lock acquisition
Blocking == {"ar_lock", "gt_read", "rt_lock", "rq_lock", "gm_lock"}

\* p's thread is not occupied by another task
CanRun(p) ==
    \A q \in Callers \ {p} : thread[q] = thread[p] => pc[q] \in Suspended

----------------------------------------------------------------------------
(* Construction *)

Epoch == TicksPerSecond

BootTokens ==
    {MkToken(0, seconds(1), eat, rt, {<<"user-read">>}) :
        eat \in {None, Some(0), Some(Epoch)},
        rt \in {None, Some("rtok")}}

\* no authorize URL built, no callback received, no form sent, the cache
\* file neither loaded nor written
NothingDone ==
    /\ url = None
    /\ callback = None
    /\ code = None
    /\ form = None
    /\ loaded = None
    /\ wrote = "none"

\* tasks are interchangeable: caller p runs on one of the threads 1..p
ThreadMaps == {f \in [Callers -> Threads] : \A p \in Callers : f[p] <= p}

\* AuthCodePkceSpotify::new / with_config / from_token
Init ==
    /\ config \in [token_refreshing : BOOLEAN, token_cached : BOOLEAN]
    /\ thread \in ThreadMaps
    /\ token \in {None} \cup {Some(t) : t \in BootTokens}
    /\ lock = [writer |-> 0, readers |-> {}, poisoned |-> FALSE]
    /\ cache = None
    /\ now = Epoch
    /\ pc = [p \in Callers |-> "idle"]
    /\ op = [p \in Callers |-> "none"]
    /\ arg = [p \in Callers |-> None]
    /\ answer = [p \in Callers |-> None]
    /\ fetched = [p \in Callers |-> None]
    /\ view = [p \in Callers |-> None]
    /\ result = [p \in Callers |-> "none"]
    /\ exchanges = 0
    /\ calls = 0
    /\ boot = token
    /\ defaulted = FALSE
    /\ expired = None
    /\ creds = [id |-> "id", secret |-> "secret"]
    /\ oauth = [redirect_uri |-> "http://localhost:8888/callback",
                state |-> "sN", scopes |-> {<<"user-read">>}]
    /\ NothingDone

----------------------------------------------------------------------------
(* Steps shared by the operations *)

handshake == <<creds, oauth, url, callback, code>>

disk == <<loaded, wrote>>

client == <<config, thread, boot, defaulted, expired, handshake, form, disk>>

\* a caller starts operation o at position at, a being what it sends
Start(p, o, at, a) ==
    /\ pc[p] = "idle"
    /\ calls < MaxCalls
    /\ CanRun(p)
    /\ calls' = calls + 1
    /\ op' = [op EXCEPT ![p] = o]
    /\ pc' = [pc EXCEPT ![p] = at]
    /\ arg' = [arg EXCEPT ![p] = a]
    /\ answer' = [answer EXCEPT ![p] = None]
    /\ fetched' = [fetched EXCEPT ![p] = None]
    /\ view' = [view EXCEPT ![p] = None]
    /\ result' = [result EXCEPT ![p] = "none"]

\* the operation goes on at position at with locals a (the refresh token
\* sent), r (the endpoint's answer) and f (the token fetched)
Goto(p, at, a, r, f) ==
    /\ pc' = [pc EXCEPT ![p] = at]
    /\ arg' = [arg EXCEPT ![p] = a]
    /\ answer' = [answer EXCEPT ![p] = r]
    /\ fetched' = [fetched EXCEPT ![p] = f]
    /\ UNCHANGED result

\* the operation returns r to its caller, its locals are gone
Return(p, r) ==
    /\ pc' = [pc EXCEPT ![p] = "idle"]
    /\ result' = [result EXCEPT ![p] = r]
    /\ arg' = [arg EXCEPT ![p] = None]
    /\ answer' = [answer EXCEPT ![p] = None]
    /\ fetched' = [fetched EXCEPT ![p] = None]

\* expect() on an Err: the caller's task unwinds
Panic(p) ==
    /\ pc' = [pc EXCEPT ![p] = "panicked"]
    /\ result' = [result EXCEPT ![p] = "panic"]
    /\ arg' = [arg EXCEPT ![p] = None]
    /\ answer' = [answer EXCEPT ![p] = None]
    /\ fetched' = [fetched EXCEPT ![p] = None]

\* the clock
Tick ==
    /\ now < Epoch + MaxTicks
    /\ now' = now + 1
    /\ UNCHANGED <<client, token, lock, cache, pc, op, arg, answer, fetched,
                   view, result, exchanges, calls>>

----------------------------------------------------------------------------
(* get_token and auto_reauth *)

Call_get_token(p) ==
    /\ Start(p, "get_token", "ar_lock", None)
    /\ UNCHANGED <<client, token, lock, cache, now, exchanges>>

Call_auto_reauth(p) ==
    /\ Start(p, "auto_reauth", "ar_lock", None)
    /\ UNCHANGED <<client, token, lock, cache, now, exchanges>>

\* a slip: the token_refreshing flag is not looked at
auto_reauth_cond_noflag(tok) ==
    /\ IsSome(tok)
    /\ can_reauth(Unwrap(tok))
    /\ IsSome(Unwrap(tok).refresh_token)

\* the condition under which auto_reauth refreshes
auto_reauth_cond(tok) ==
    /\ config.token_refreshing
    /\ IsSome(tok)
    /\ can_reauth(Unwrap(tok))
    /\ IsSome(Unwrap(tok).refresh_token)

\* auto_reauth returned Ok(()): get_token goes on to read()
auto_reauth_ok(p) ==
    IF op[p] = "get_token" THEN Goto(p, "gt_read", None, None, None)
    ELSE Return(p, "ok")

\* auto_reauth returned Err: get_token's expect() panics
auto_reauth_err(p) ==
    IF op[p] = "get_token" THEN Panic(p) ELSE Return(p, "err")

\* get_token_mut() inside auto_reauth, the check, and the request of
\* refetch_token
auto_reauth_lock(p) ==
    /\ pc[p] = "ar_lock"
    /\ CanRun(p)
    /\ write_free
    /\ IF lock.poisoned
       THEN /\ Panic(p)
            /\ UNCHANGED <<lock, exchanges>>
       ELSE IF auto_reauth_cond(token)
       THEN /\ lock' = [lock EXCEPT !.writer = p]
            /\ exchanges' = exchanges + 1
            /\ Goto(p, "ar_exchange", Unwrap(token).refresh_token, None, None)
       ELSE /\ auto_reauth_ok(p)
            /\ UNCHANGED <<lock, exchanges>>
    /\ UNCHANGED <<client, token, cache, now, op, view, calls>>

\* the endpoint answers refetch_token; the fetched token is stored
auto_reauth_response(p, r) ==
    /\ pc[p] = "ar_exchange"
    /\ CanRun(p)
    /\ IF r.ok
       THEN /\ token' = Some(refetch_token(r, Unwrap(arg[p])))
            /\ Goto(p, "ar_cache", arg[p], Some(r), token')
            /\ UNCHANGED lock
       ELSE /\ lock' = [lock EXCEPT !.writer = 0]
            /\ auto_reauth_err(p)
            /\ UNCHANGED token
    /\ UNCHANGED <<client, cache, now, op, view, exchanges, calls>>

\* write_token_cache inside auto_reauth, then the write guard is dropped
auto_reauth_write_cache(p, io, ord) ==
    /\ pc[p] = "ar_cache"
    /\ CanRun(p)
    /\ store_readable(p)
    /\ cache' = write_token_cache(io, ord)
    /\ lock' = [lock EXCEPT !.writer = 0]
    /\ IF write_token_cache_ok(io) THEN auto_reauth_ok(p) ELSE auto_reauth_err(p)
    /\ UNCHANGED <<client, token, now, op, view, exchanges, calls>>

\* a slip: the guard of a poisoned lock is taken all the same
get_token_read_recovers(p) ==
    /\ pc[p] = "gt_read"
    /\ CanRun(p)
    /\ read_free
    /\ lock' = [lock EXCEPT !.readers = @ \cup {p}]
    /\ view' = [view EXCEPT ![p] = token]
    /\ Goto(p, "view", None, None, None)
    /\ UNCHANGED <<client, token, cache, now, op, exchanges, calls>>

\* self.token.read() in get_token
get_token_read(p) ==
    /\ pc[p] = "gt_read"
    /\ CanRun(p)
    /\ read_free
    /\ IF lock.poisoned
       THEN /\ Panic(p)
            /\ UNCHANGED <<lock, view>>
       ELSE /\ lock' = [lock EXCEPT !.readers = @ \cup {p}]
            /\ view' = [view EXCEPT ![p] = token]
            /\ Goto(p, "view", None, None, None)
    /\ UNCHANGED <<client, token, cache, now, op, exchanges, calls>>

\* the caller drops the RwLockReadGuard
drop_view(p) ==
    /\ pc[p] = "view"
    /\ CanRun(p)
    /\ lock' = [lock EXCEPT !.readers = @ \ {p}]
    /\ Return(p, "ok")
    /\ UNCHANGED <<client, token, cache, now, op, view, exchanges, calls>>

----------------------------------------------------------------------------
(* refresh_token *)

\* refresh_token(rt): refetch_token sends its request, no lock is held
Call_refresh_token(p, rt) ==
    /\ Start(p, "refresh_token", "rt_exchange", Some(rt))
    /\ exchanges' = exchanges + 1
    /\ UNCHANGED <<client, token, lock, cache, now>>

\* a slip: a failed refresh throws the stored token away
refresh_token_response_clears(p, r) ==
    /\ pc[p] = "rt_exchange"
    /\ CanRun(p)
    /\ IF r.ok
       THEN /\ Goto(p, "rt_lock", arg[p], Some(r),
                    Some(refetch_token(r, Unwrap(arg[p]))))
            /\ UNCHANGED token
       ELSE /\ Return(p, "err")
            /\ token' = None
    /\ UNCHANGED <<client, lock, cache, now, op, view, exchanges, calls>>

\* the endpoint answers refetch_token
refresh_token_response(p, r) ==
    /\ pc[p] = "rt_exchange"
    /\ CanRun(p)
    /\ IF r.ok
       THEN Goto(p, "rt_lock", arg[p], Some(r),
                 Some(refetch_token(r, Unwrap(arg[p]))))
       ELSE Return(p, "err")
    /\ UNCHANGED <<client, token, lock, cache, now, op, view, exchanges, calls>>

\* *self.get_token_mut() = Some(token)
refresh_token_store(p) ==
    /\ pc[p] = "rt_lock"
    /\ CanRun(p)
    /\ write_free
    /\ IF lock.poisoned
       THEN /\ Panic(p)
            /\ UNCHANGED token
       ELSE /\ token' = fetched[p]
            /\ Goto(p, "rt_cache", arg[p], answer[p], fetched[p])
    /\ UNCHANGED <<client, lock, cache, now, op, view, exchanges, calls>>

\* self.write_token_cache().await
refresh_token_write_cache(p, io, ord) ==
    /\ pc[p] = "rt_cache"
    /\ CanRun(p)
    /\ store_readable(p)
    /\ cache' = write_token_cache(io, ord)
    /\ Return(p, IF write_token_cache_ok(io) THEN "ok" ELSE "err")
    /\ UNCHANGED <<client, token, lock, now, op, view, exchanges, calls>>

----------------------------------------------------------------------------
(* request_token *)

\* the code the user calls request_token with: the one parsed from the
\* callback, if any
HeldCodes ==
    IF IsSome(code) /\ IsSome(Unwrap(code)) THEN {Unwrap(Unwrap(code))}
    ELSE {<<"AQD0yXvFEOvw">>}

\* the form of request_token, the scopes joined in the order ord
request_token_form(c, ord) ==
    [grant_type |-> <<"authorization_code">>,
     redirect_uri |-> <<oauth.redirect_uri>>,
     code |-> c,
     scope |-> join(ord),
     state |-> <<oauth.state>>]

\* request_token(code): fetch_access_token sends the form, no lock is held
Call_request_token(p, c, ord) ==
    /\ Start(p, "request_token", "rq_exchange", None)
    /\ form' = Some(request_token_form(c, ord))
    /\ exchanges' = exchanges + 1
    /\ UNCHANGED <<config, thread, boot, defaulted, expired, handshake, disk,
                   token, lock, cache, now>>

\* the endpoint answers fetch_access_token
request_token_response(p, r) ==
    /\ pc[p] = "rq_exchange"
    /\ CanRun(p)
    /\ IF r.ok
       THEN Goto(p, "rq_lock", None, Some(r), Some(fetch_access_token(r)))
       ELSE Return(p, "err")
    /\ UNCHANGED <<client, token, lock, cache, now, op, view, exchanges, calls>>

\* *self.get_token_mut() = Some(token)
request_token_store(p) ==
    /\ pc[p] = "rq_lock"
    /\ CanRun(p)
    /\ write_free
    /\ IF lock.poisoned
       THEN /\ Panic(p)
            /\ UNCHANGED token
       ELSE /\ token' = fetched[p]
            /\ Goto(p, "rq_cache", None, answer[p], fetched[p])
    /\ UNCHANGED <<client, lock, cache, now, op, view, exchanges, calls>>

\* a slip: request_token returns without writing the cache
request_token_forgets_cache(p, io, ord) ==
    /\ pc[p] = "rq_cache"
    /\ CanRun(p)
    /\ Return(p, "ok")
    /\ UNCHANGED <<client, token, lock, cache, now, op, view, exchanges, calls>>

\* self.write_token_cache().await
request_token_write_cache(p, io, ord) ==
    /\ pc[p] = "rq_cache"
    /\ CanRun(p)
    /\ store_readable(p)
    /\ cache' = write_token_cache(io, ord)
    /\ Return(p, IF write_token_cache_ok(io) THEN "ok" ELSE "err")
    /\ UNCHANGED <<client, token, lock, now, op, view, exchanges, calls>>

----------------------------------------------------------------------------
(* get_token_mut, called by the client's user *)

Call_get_token_mut(p) ==
    /\ Start(p, "get_token_mut", "gm_lock", None)
    /\ UNCHANGED <<client, token, lock, cache, now, exchanges>>

\* self.token.write()
get_token_mut(p) ==
    /\ pc[p] = "gm_lock"
    /\ CanRun(p)
    /\ write_free
    /\ IF lock.poisoned
       THEN /\ Panic(p)
            /\ UNCHANGED lock
       ELSE /\ lock' = [lock EXCEPT !.writer = p]
            /\ Goto(p, "gm_held", None, None, None)
    /\ UNCHANGED <<client, token, cache, now, op, view, exchanges, calls>>

\* the caller drops the RwLockWriteGuard
drop_guard(p) ==
    /\ pc[p] = "gm_held"
    /\ CanRun(p)
    /\ lock' = [lock EXCEPT !.writer = 0]
    /\ Return(p, "ok")
    /\ UNCHANGED <<client, token, cache, now, op, view, exchanges, calls>>

\* the caller panics with the RwLockWriteGuard alive: the lock is poisoned
panic_with_guard(p) ==
    /\ pc[p] = "gm_held"
    /\ CanRun(p)
    /\ lock' = [lock EXCEPT !.writer = 0, !.poisoned = TRUE]
    /\ Panic(p)
    /\ UNCHANGED <<client, token, cache, now, op, view, exchanges, calls>>

----------------------------------------------------------------------------
(* The client *)

Next ==
    \/ Tick
    \/ \E p \in Callers : Call_get_token(p)
    \/ \E p \in Callers : Call_auto_reauth(p)
    \/ \E p \in Callers : auto_reauth_lock(p)
    \/ \E p \in Callers, r \in Responses : auto_reauth_response(p, r)
    \/ \E p \in Callers, io \in IOOutcomes, ord \in StoredOrders :
          auto_reauth_write_cache(p, io, ord)
    \/ \E p \in Callers : get_token_read(p)
    \/ \E p \in Callers : drop_view(p)
    \/ \E p \in Callers, rt \in RefreshTokens : Call_refresh_token(p, rt)
    \/ \E p \in Callers, r \in Responses : refresh_token_response(p, r)
    \/ \E p \in Callers : refresh_token_store(p)
    \/ \E p \in Callers, io \in IOOutcomes, ord \in StoredOrders :
          refresh_token_write_cache(p, io, ord)
    \/ \E p \in Callers, c \in HeldCodes, ord \in Orders(oauth.scopes) :
          Call_request_token(p, c, ord)
    \/ \E p \in Callers, r \in Responses : request_token_response(p, r)
    \/ \E p \in Callers : request_token_store(p)
    \/ \E p \in Callers, io \in IOOutcomes, ord \in StoredOrders :
          request_token_write_cache(p, io, ord)
    \/ \E p \in Callers : Call_get_token_mut(p)
    \/ \E p \in Callers : get_token_mut(p)
    \/ \E p \in Callers : drop_guard(p)
    \/ \E p \in Callers : panic_with_guard(p)

Spec == Init /\ [][Next]_vars

----------------------------------------------------------------------------
(* Token on its own: building tokens and asking is_expired() as time passes *)

Instants == 0..MaxTime

TokenInit ==
    /\ config = [token_refreshing |-> TRUE, token_cached |-> FALSE]
    /\ thread = [p \in Callers |-> p]
    /\ token = None
    /\ lock = [writer |-> 0, readers |-> {}, poisoned |-> FALSE]
    /\ cache = None
    /\ now = 0
    /\ pc = [p \in Callers |-> "idle"]
    /\ op = [p \in Callers |-> "none"]
    /\ arg = [p \in Callers |-> None]
    /\ answer = [p \in Callers |-> None]
    /\ fetched = [p \in Callers |-> None]
    /\ view = [p \in Callers |-> None]
    /\ result = [p \in Callers |-> "none"]
    /\ exchanges = 0
    /\ calls = 0
    /\ boot = None
    /\ defaulted = FALSE
    /\ expired = None
    /\ creds = [id |-> "id", secret |-> "secret"]
    /\ oauth = [redirect_uri |-> "http://localhost:8888/callback",
                state |-> "sN", scopes |-> {}]
    /\ NothingDone

rest == <<config, thread, lock, pc, op, arg, answer, fetched, view,
          result, exchanges, calls, handshake, form>>

\* TokenBuilder::default().access_token(..)[.expires_at(e)][.refresh_token(rt)]
\* .build(), handed to from_token: without the setter, expires_at is
\* Some(Utc::now())
TokenBuilder_build(e, rt) ==
    /\ token' = Some(MkToken(0, 0, IF IsSome(e) THEN e ELSE Some(now), rt, {}))
    /\ boot' = token'
    /\ defaulted' = ~IsSome(e)
    /\ UNCHANGED <<rest, cache, disk, now, expired>>

\* a Token without expires_at (a struct literal, a deserialized null)
Token_without_expiry(rt) ==
    /\ token' = Some(MkToken(0, 0, None, rt, {}))
    /\ boot' = token'
    /\ defaulted' = FALSE
    /\ UNCHANGED <<rest, cache, disk, now, expired>>

TokenTick ==
    /\ now < MaxTime
    /\ now' = now + 1
    /\ UNCHANGED <<rest, cache, disk, token, boot, defaulted, expired>>

\* tok.is_expired() on the stored token
Call_is_expired ==
    /\ IsSome(token)
    /\ expired' = Some([tok |-> Unwrap(token), at |-> now,
                        answer |-> is_expired(Unwrap(token))])
    /\ UNCHANGED <<rest, cache, disk, token, now, boot, defaulted>>

TokenNext ==
    \/ \E e \in {None} \cup {Some(t) : t \in Instants},
          rt \in {None, Some("rtok")} : TokenBuilder_build(e, rt)
    \/ \E rt \in {None, Some("rtok")} : Token_without_expiry(rt)
    \/ TokenTick
    \/ Call_is_expired

TokenSpec == TokenInit /\ [][TokenNext]_vars

----------------------------------------------------------------------------
(* The cache file on its own: a token is written to a file that may hold    *)
(* anything, and the file is loaded                                         *)

CacheScopes ==
    {{}, {<<"user-read">>}, {<<"user-read">>, <<"playlist">>},
     {<<"user", "read">>}}

CacheTokens ==
    {MkToken(1, ein, eat, rt, sc) :
        ein \in {seconds(0), seconds(1), seconds(1) + 1},
        eat \in {None, Some(0), Some(1)},
        rt \in {None, Some("rtok")},
        sc \in CacheScopes}

\* what an earlier run left in the file
OldDocument ==
    to_string(MkToken(0, seconds(1), Some(0), Some("rtok"),
                      {<<"user-read">>}), <<<<"user-read">>>>)

\* no file, an empty file, a token, a longer content that is not one document
PreviousFiles ==
    {None, Some(<<>>), Some(<<OldDocument>>),
     Some(<<OldDocument, OldDocument>>)}

CacheInit ==
    /\ config = [token_refreshing |-> TRUE, token_cached |-> TRUE]
    /\ thread = [p \in Callers |-> p]
    /\ token \in {Some(t) : t \in CacheTokens}
    /\ lock = [writer |-> 0, readers |-> {}, poisoned |-> FALSE]
    /\ cache \in PreviousFiles
    /\ now = 0
    /\ pc = [p \in Callers |-> "idle"]
    /\ op = [p \in Callers |-> "none"]
    /\ arg = [p \in Callers |-> None]
    /\ answer = [p \in Callers |-> None]
    /\ fetched = [p \in Callers |-> None]
    /\ view = [p \in Callers |-> None]
    /\ result = [p \in Callers |-> "none"]
    /\ exchanges = 0
    /\ calls = 0
    /\ boot = token
    /\ defaulted = FALSE
    /\ expired = None
    /\ creds = [id |-> "id", secret |-> "secret"]
    /\ oauth = [redirect_uri |-> "http://localhost:8888/callback",
                state |-> "sN", scopes |-> {}]
    /\ NothingDone

\* tok.write_cache(path) on the token at hand
Call_write_cache(io, ord) ==
    /\ cache' = write_cache(cache, to_string(Unwrap(token), ord), io)
    /\ wrote' = io
    /\ loaded' = None
    /\ UNCHANGED <<rest, token, now, boot, defaulted, expired>>

\* TokenBuilder::from_cache(path)
Call_from_cache(io) ==
    /\ loaded' = Some([builder |-> from_cache(cache, io), io |-> io,
                       file |-> cache])
    /\ UNCHANGED <<config, thread, lock, cache, pc, op, arg, answer, fetched,
                   view, result, exchanges, calls, handshake, form, wrote,
                   token, now, boot, defaulted, expired>>

CacheNext ==
    \/ \E io \in IOOutcomes, ord \in StoredOrders : Call_write_cache(io, ord)
    \/ \E io \in ReadOutcomes : Call_from_cache(io)

CacheSpec == CacheInit /\ [][CacheNext]_vars

----------------------------------------------------------------------------
(* The authorization handshake: the authorize URL, the redirect back to the *)
(* callback, parse_response_code and request_token.  A URL is the sequence  *)
(* of its parts, the delimiters ? & = # among them.                         *)

AUTHORIZE == "https://accounts.spotify.com/authorize"

\* a slip: the client secret is sent along
get_authorize_url_with_secret(cr, oa, ord) ==
    [base |-> AUTHORIZE,
     query |-> [client_id |-> <<cr.id>>,
                client_secret |-> <<cr.secret>>,
                response_type |-> <<"code">>,
                redirect_uri |-> <<oa.redirect_uri>>,
                scope |-> join(ord),
                state |-> <<oa.state>>]]

\* get_authorize_url: the payload of Url::parse_with_params, the scopes
\* joined in the order ord
get_authorize_url(cr, oa, ord) ==
    [base |-> AUTHORIZE,
     query |-> [client_id |-> <<cr.id>>,
                response_type |-> <<"code">>,
                redirect_uri |-> <<oa.redirect_uri>>,
                scope |-> join(ord),
                state |-> <<oa.state>>]]

Codes == {"AQD0yXvFEOvw", "forged"}
States == {"sN", "s0"}
Fragments == {None, Some("_=_")}
Shapes == {"code_state", "state_code", "error"}

\* the URL the browser is sent back to
callback_url(shape, c, s, frag) ==
    <<oauth.redirect_uri, "?">>
    \o (CASE shape = "code_state" -> <<"code", "=", c, "&", "state", "=", s>>
          [] shape = "state_code" -> <<"state", "=", s, "&", "code", "=", c>>
          [] OTHER -> <<"error", "=", "access_denied", "&", "state", "=", s>>)
    \o (IF IsSome(frag) THEN <<"#", Unwrap(frag)>> ELSE <<>>)

\* first position of part in text at or after from, Len(text) + 1 if none
IndexOf(text, part, from) ==
    IF \E i \in from..Len(text) : text[i] = part
    THEN CHOOSE i \in from..Len(text) :
            /\ text[i] = part
            /\ \A j \in from..(i - 1) : text[j] # part
    ELSE Len(text) + 1

\* text split at every sep
RECURSIVE split(_, _)
split(text, sep) ==
    LET i == IndexOf(text, sep, 1)
    IN  IF i > Len(text) THEN <<text>>
        ELSE <<SubSeq(text, 1, i - 1)>> \o split(SubSeq(text, i + 1, Len(text)), sep)

\* Url::query_pairs(): the key=value pairs between ? and #
query_pairs(text) ==
    LET q == IndexOf(text, "?", 1)
        h == IndexOf(text, "#", 1)
    IN  IF q > Len(text) \/ h < q THEN <<>>
        ELSE split(SubSeq(text, q + 1, h - 1), "&")

\* a slip: the query is not split at &
query_pairs_unsplit(text) ==
    LET q == IndexOf(text, "?", 1)
        h == IndexOf(text, "#", 1)
    IN  IF q > Len(text) \/ h < q THEN <<>>
        ELSE <<SubSeq(text, q + 1, h - 1)>>

\* the value of the first pair whose key is key
find_pair(pairs, key) ==
    LET hits == {i \in DOMAIN pairs :
                    Len(pairs[i]) >= 2 /\ pairs[i][1] = key /\ pairs[i][2] = "="}
    IN  IF hits = {} THEN None
        ELSE LET i == CHOOSE h \in hits : \A g \in hits : h <= g
             IN  Some(SubSeq(pairs[i], 3, Len(pairs[i])))

\* a slip: every part after code= up to the fragment is the code
parse_response_code_greedy(text) == find_pair(query_pairs_unsplit(text), "code")

\* parse_response_code: the value of the code parameter of the URL's query;
\* the state parameter is not looked at
parse_response_code(text) == find_pair(query_pairs(text), "code")

FlowInit ==
    /\ config = [token_refreshing |-> TRUE, token_cached |-> TRUE]
    /\ thread = [p \in Callers |-> p]
    /\ token = None
    /\ lock = [writer |-> 0, readers |-> {}, poisoned |-> FALSE]
    /\ cache = None
    /\ now = Epoch
    /\ pc = [p \in Callers |-> "idle"]
    /\ op = [p \in Callers |-> "none"]
    /\ arg = [p \in Callers |-> None]
    /\ answer = [p \in Callers |-> None]
    /\ fetched = [p \in Callers |-> None]
    /\ view = [p \in Callers |-> None]
    /\ result = [p \in Callers |-> "none"]
    /\ exchanges = 0
    /\ calls = 0
    /\ boot = token
    /\ defaulted = FALSE
    /\ expired = None
    /\ creds \in [id : {"id"}, secret : {"secret", "hunter2"}]
    /\ oauth \in [redirect_uri : {"http://localhost:8888/callback"},
                   state : States,
                   scopes : {{<<"user-read">>},
                             {<<"user-read">>, <<"playlist">>}}]
    /\ NothingDone

flow_rest == <<config, thread, token, lock, cache, now, pc, op, arg, answer,
               fetched, view, result, exchanges, calls, boot, defaulted,
               expired, creds, oauth, form, disk>>

\* the client's user asks for the authorize URL
Call_get_authorize_url(ord) ==
    /\ url' = Some(get_authorize_url(creds, oauth, ord))
    /\ UNCHANGED <<flow_rest, callback, code>>

\* the browser comes back to the redirect URI: sent by the authorization
\* server, or by somebody else
Redirect(shape, c, s, frag) ==
    /\ callback' = Some(callback_url(shape, c, s, frag))
    /\ code' = None
    /\ UNCHANGED <<flow_rest, url>>

\* the client's user hands the callback URL to parse_response_code
Call_parse_response_code ==
    /\ IsSome(callback)
    /\ code' = Some(parse_response_code(Unwrap(callback)))
    /\ UNCHANGED <<flow_rest, url, callback>>

FlowNext ==
    \/ \E ord \in Orders(oauth.scopes) : Call_get_authorize_url(ord)
    \/ \E shape \in Shapes, c \in Codes, s \in States, frag \in Fragments :
          Redirect(shape, c, s, frag)
    \/ Call_parse_response_code
    \/ \E c \in HeldCodes, ord \in Orders(oauth.scopes) :
          Call_request_token(1, c, ord)
    \/ \E r \in Responses : request_token_response(1, r)
    \/ request_token_store(1)
    \/ \E io \in IOOutcomes, ord \in StoredOrders :
          request_token_write_cache(1, io, ord)

FlowSpec == FlowInit /\ [][FlowNext]_vars

----------------------------------------------------------------------------
(* Claims about Token *)

\* C9: is_expired() answers true iff expires_at is absent or the instant of
\* the call is strictly after expires_at (true for every expires_at in the
\* past, false for every expires_at in the future).
C9_IsExpiredIffPast ==
    IsSome(expired) =>
        LET e == Unwrap(expired)
        IN  e.answer = (e.tok.expires_at = None
                        \/ e.at > Unwrap(e.tok.expires_at))

\* C10: a token built through TokenBuilder without an explicit expires_at is
\* stale at the instant it is built and at every later instant: is_expired()
\* on it answers true.
C10_DefaultIsStale ==
    (/\ defaulted
     /\ IsSome(expired)
     /\ IsSome(token)
     /\ Unwrap(expired).tok = Unwrap(token)
     /\ Unwrap(expired).at >= Unwrap(Unwrap(token).expires_at))
        => Unwrap(expired).answer

----------------------------------------------------------------------------
(* States of the auth session, read off the store *)

Refreshable(t) == IsSome(t) /\ IsSome(Unwrap(t).refresh_token)
ValidRefreshable(t) == Refreshable(t) /\ ~is_expired(Unwrap(t))
ExpiredTerminal(t) ==
    IsSome(t) /\ ~IsSome(Unwrap(t).refresh_token) /\ is_expired(Unwrap(t))

\* the store held an expired token when the client was built
BootExpired ==
    /\ IsSome(boot)
    /\ \/ ~IsSome(Unwrap(boot).expires_at)
       \/ timestamp(Epoch) > timestamp(Unwrap(Unwrap(boot).expires_at))

\* p's step out of the check of auto_reauth
Checks(p) == pc[p] = "ar_lock" /\ pc'[p] # "ar_lock"

\* p's step that stores the token auto_reauth fetched
Refreshes(p) == pc[p] = "ar_exchange" /\ pc'[p] = "ar_cache"

\* p's step that takes the read view of get_token
Views(p) == pc[p] = "gt_read" /\ pc'[p] = "view"

\* a request_token or refresh_token call is under way
ExplicitCall == \E q \in Callers : op[q] \in {"request_token", "refresh_token"}

\* the cache file holds exactly the serialization of the stored token
CacheIsStore ==
    /\ IsSome(token)
    /\ \E ord \in Orders(Unwrap(token).scope) :
          cache = Some(<<to_string(Unwrap(token), ord)>>)

----------------------------------------------------------------------------
(* Claims about the client *)

\* C1: N concurrent get_token calls against one expired token with a refresh
\* token (refreshing enabled, exchanges succeeding) send exactly one exchange
\* to the token endpoint, and all N callers see the same token in their view.
C1_OneExchangeForAll ==
    (/\ config.token_refreshing
     /\ BootExpired
     /\ Refreshable(boot)
     /\ calls = NumCallers
     /\ \A p \in Callers : op[p] = "get_token" /\ pc[p] \in {"view", "idle"}
                           /\ IsSome(view[p]))
        => /\ exchanges = 1
           /\ \A p, q \in Callers : view[p] = view[q]

\* C2: at most one refresh exchange of a client is in flight at any time,
\* whether it was started by get_token / auto_reauth or by refresh_token.
C2_OneRefreshInFlight ==
    Cardinality({p \in Callers : pc[p] \in {"ar_exchange", "rt_exchange"}}) <= 1

\* C3: with refreshing enabled and a stored token that has a refresh token
\* and is not expired, the check of auto_reauth sends no exchange and leaves
\* the store and the cache as they are.
C3_ValidTokenIsKept ==
    [][\A p \in Callers :
          (Checks(p) /\ config.token_refreshing /\ ValidRefreshable(token))
              => /\ exchanges' = exchanges
                 /\ token' = token
                 /\ cache' = cache
                 /\ pc'[p] # "ar_exchange"]_vars


\* C4: with refreshing disabled, an empty store or a stored token without a
\* refresh token, the check of auto_reauth sends no exchange and leaves the
\* store and the cache as they are; an expired token without a refresh token
\* stays what it is as long as nobody calls request_token or refresh_token.
C4_NoRefreshWithoutMeans ==
    [][/\ \A p \in Callers :
             (Checks(p) /\ (~config.token_refreshing \/ ~Refreshable(token)))
                 => /\ exchanges' = exchanges
                    /\ token' = token
                    /\ cache' = cache
                    /\ pc'[p] # "ar_exchange"
       /\ (ExpiredTerminal(token) /\ ~ExplicitCall /\ ~ExplicitCall')
             => (ExpiredTerminal(token))']_vars

C4_Witness ==
    \E p \in Callers :
        /\ op[p] = "get_token"
        /\ pc[p] = "view"
        /\ calls = MaxCalls
        /\ ExpiredTerminal(view[p])
        /\ ExpiredTerminal(token)
        /\ config.token_refreshing
        /\ exchanges = 0

\* C5: a refresh stores the fetched token with the refresh token the exchange
\* was sent with, whatever the response carries in its place (nothing, or
\* another one); under auto_reauth that is the refresh token the store held
\* before, so it survives any number of successive refreshes.
C5_RefreshTokenKept ==
    [][\A p \in Callers :
          /\ Refreshes(p)
                => /\ Unwrap(token').refresh_token = arg[p]
                   /\ Unwrap(token').refresh_token = Unwrap(token).refresh_token
          /\ (pc[p] = "rt_lock" /\ pc'[p] = "rt_cache")
                => Unwrap(token').refresh_token = arg[p]]_vars

C5_Witness ==
    \E p \in Callers :
        /\ pc[p] = "ar_cache"
        /\ exchanges = 2
        /\ ~ExplicitCall
        /\ ~IsSome(Unwrap(answer[p]).refresh_token)
        /\ Unwrap(boot).refresh_token = Some("rtok")
        /\ Unwrap(token).refresh_token = Some("rtok")
        /\ Unwrap(token).access_token = 2

\* C6: get_token on an expired token with a refresh token, refreshing enabled
\* and the exchange succeeding: the stored token is replaced by the token the
\* endpoint returned (its access token, its expiry), which is not expired;
\* the cache is written with it (caching enabled); the view handed to the
\* caller shows the stored token, and with no other caller at work that is
\* the refreshed, not expired token.
C6_RefreshStoresAndShows ==
    /\ [][\A p \in Callers :
             /\ Refreshes(p)
                   => /\ token' = fetched'[p]
                      /\ Unwrap(token').access_token = Unwrap(answer'[p]).access_token
                      /\ Unwrap(token').expires_in
                            = seconds(Unwrap(answer'[p]).expires_in)
                      /\ Unwrap(token').scope = Unwrap(answer'[p]).scope
                      /\ ~is_expired(Unwrap(token'))
             /\ (pc[p] = "ar_cache" /\ pc'[p] = "gt_read" /\ config.token_cached)
                   => CacheIsStore'
             /\ Views(p) => view'[p] = token]_vars
    /\ [](\A p \in Callers :
             (/\ op[p] = "get_token"
              /\ pc[p] = "view"
              /\ calls = 1
              /\ exchanges = 1)
                 => /\ view[p] = token
                    /\ Unwrap(token).access_token = 1
                    /\ Unwrap(token).refresh_token = Unwrap(boot).refresh_token
                    /\ now <= Unwrap(Unwrap(token).expires_at)
                          => ~is_expired(Unwrap(view[p]))
                    /\ config.token_cached => CacheIsStore)

C6_Witness ==
    \E p \in Callers :
        /\ op[p] = "get_token"
        /\ pc[p] = "view"
        /\ calls = 1
        /\ exchanges = 1
        /\ BootExpired
        /\ config.token_cached
        /\ CacheIsStore
        /\ Unwrap(view[p]).access_token = 1
        /\ ~is_expired(Unwrap(view[p]))

\* C7: a get_token call never deadlocks on the token lock against the
\* refresh branch of auto_reauth: it never waits for the lock, keeping its
\* thread, while the lock is held by a refresh whose task needs that same
\* thread to take the endpoint's answer and release the lock.
C7_GetTokenNeverStuck ==
    \A p \in Callers :
        ~(/\ op[p] = "get_token"
          /\ pc[p] \in {"ar_lock", "gt_read"}
          /\ \E q \in Callers \ {p} :
                /\ thread[q] = thread[p]
                /\ lock.writer = q
                /\ pc[q] = "ar_exchange")

\* C8: auto_reauth holds the write lock from its check through the store
\* update and the cache write; while it does, no step of another caller
\* changes the store or takes a view of it; a writer and a reader never hold
\* the lock together.
C8_ExclusiveWhileRefreshing ==
    /\ [](/\ lock.writer # 0 => lock.readers = {}
          /\ \A p \in Callers :
                pc[p] \in {"ar_exchange", "ar_cache"} => lock.writer = p)
    /\ [][\A p \in Callers :
             (pc[p] \in {"ar_exchange", "ar_cache"} /\ pc'[p] = pc[p])
                 => /\ token' = token
                    /\ view' = view
                    /\ lock' = lock]_vars

C8_Witness ==
    \E p, q \in Callers :
        /\ pc[p] = "ar_exchange"
        /\ lock.writer = p
        /\ thread[q] # thread[p]
        /\ pc[q] \in Blocking

\* p's step that returns Ok(()) from a request_token, a refresh_token or an
\* auto_reauth that refreshed
ReturnsRefreshed(p) ==
    /\ pc[p] \in {"ar_cache", "rt_cache", "rq_cache"}
    /\ \/ pc'[p] = "idle" /\ result'[p] = "ok"
       \/ pc'[p] = "gt_read"

\* every call made so far sent an exchange and has returned Ok(())
AllRefreshed ==
    /\ calls >= 1
    /\ exchanges = calls
    /\ \A p \in Callers :
          /\ pc[p] \in {"idle", "view"}
          /\ op[p] # "none" => result[p] \in {"ok", "none"}

\* C11: with caching enabled, when request_token, refresh_token or an
\* auto_reauth that refreshed returns successfully the cache file holds the
\* serialization of the token in the store, and it still does once every call
\* of any interleaving of such operations has returned successfully.
C11_CacheFollowsStore ==
    /\ [][\A p \in Callers :
             (config.token_cached /\ ReturnsRefreshed(p)) => CacheIsStore']_vars
    /\ []((config.token_cached /\ AllRefreshed) => CacheIsStore)

C11_Witness ==
    /\ config.token_cached
    /\ AllRefreshed
    /\ calls = 2
    /\ op[1] = "refresh_token"
    /\ op[2] = "request_token"
    /\ CacheIsStore
    /\ Unwrap(token).access_token = 1

\* the file was written by write_cache and then loaded, both without an I/O
\* error
WrittenAndLoaded ==
    /\ wrote = "ok"
    /\ IsSome(loaded)
    /\ Unwrap(loaded).io = "ok"

\* C12: for every Token and every previous content of the cache file,
\* write_cache followed by from_cache yields a token equal to the original in
\* all fields (the scope as a set); the file then holds the one document
\* written, whatever it held before.
C12_CacheRoundTrip ==
    WrittenAndLoaded
        => /\ build(Unwrap(loaded).builder) = token
           /\ CacheIsStore

\* the load failed: no file, an I/O error, or not one JSON document
LoadFailed ==
    /\ IsSome(loaded)
    /\ \/ ~IsSome(Unwrap(loaded).file)
       \/ Unwrap(loaded).io # "ok"
       \/ Len(Unwrap(Unwrap(loaded).file)) # 1

\* C13: from_cache raises no error: on a missing file, an unreadable file or
\* malformed JSON it returns the default builder, from which no token can be
\* built (the client starts without a token).
C13_FromCacheSwallows ==
    LoadFailed
        => /\ Unwrap(loaded).builder = TokenBuilder_default
           /\ build(Unwrap(loaded).builder) = None

C13_Witness ==
    /\ LoadFailed
    /\ Unwrap(loaded).io = "ok"
    /\ IsSome(Unwrap(loaded).file)
    /\ Len(Unwrap(Unwrap(loaded).file)) = 2
    /\ Unwrap(loaded).builder = TokenBuilder_default

\* p's step in which the exchange or the cache write of its operation fails:
\* it leaves the operation from one of these positions without Ok(())
FailsIn(p) ==
    /\ pc[p] \in {"ar_exchange", "rt_exchange", "rq_exchange",
                  "ar_cache", "rt_cache", "rq_cache"}
    /\ pc'[p] \in {"idle", "panicked"}
    /\ result'[p] # "ok"

\* C14: a failed exchange or cache write of request_token, refresh_token or
\* of the refresh run by get_token comes back to the caller as an error value
\* (the call returns, it does not abort), and a call sends at most one
\* exchange: a failed exchange is not sent again.
C14_FailuresAreTyped ==
    /\ [](exchanges <= calls)
    /\ [][\A p \in Callers :
             FailsIn(p) => /\ pc'[p] = "idle"
                           /\ result'[p] = "err"
                           /\ exchanges' = exchanges]_vars

\* t is the token the exchange answered by r at instant at produces, sent
\* with a (the refresh token re-attached, if one was sent)
ProducedBy(t, r, a, at) ==
    /\ r.ok
    /\ t.access_token = r.access_token
    /\ t.expires_in = seconds(r.expires_in)
    /\ t.expires_at = Some(at + seconds(r.expires_in))
    /\ t.scope = r.scope
    /\ t.refresh_token = (IF IsSome(a) THEN a ELSE r.refresh_token)

\* C15: a store that holds a token never becomes empty again, and every
\* change of the store puts there, whole, the token a successful exchange of
\* one of the callers produced: get_token, auto_reauth, request_token and
\* refresh_token neither empty the store nor change single fields of the
\* stored token.
C15_StoreReplacedWhole ==
    [][/\ IsSome(token) => IsSome(token')
       /\ \A p \in Callers :
             (fetched'[p] # fetched[p] /\ IsSome(fetched'[p]))
                 => /\ IsSome(answer'[p])
                    /\ ProducedBy(Unwrap(fetched'[p]), Unwrap(answer'[p]),
                                  arg'[p], now)
       /\ token' # token
             => \E p \in Callers :
                   /\ pc[p] \in {"ar_exchange", "rt_lock", "rq_lock"}
                   /\ pc'[p] \in {"ar_cache", "rt_cache", "rq_cache"}
                   /\ token' = fetched'[p]]_vars

C15_Witness ==
    \E p \in Callers :
        /\ pc[p] = "ar_cache"
        /\ IsSome(boot)
        /\ token # boot
        /\ token = fetched[p]
        /\ exchanges = 2

\* C20: once the token lock is poisoned it stays poisoned and nobody holds
\* it or a view of the store; every get_token and get_token_mut that comes to
\* the lock panics, no view or guard is handed out and the store is left as
\* it is.
C20_PoisonedIsFatal ==
    /\ [](lock.poisoned
            => /\ lock.writer = 0
               /\ lock.readers = {}
               /\ \A p \in Callers :
                     pc[p] \notin {"view", "gm_held", "ar_exchange", "ar_cache"})
    /\ [][lock.poisoned
            => /\ lock' = lock
               /\ view' = view
               /\ token' = token
               /\ \A p \in Callers :
                     (pc[p] \in Blocking /\ pc'[p] # pc[p])
                         => pc'[p] = "panicked" /\ result'[p] = "panic"]_vars

C20_Witness ==
    /\ lock.poisoned
    /\ \E p, q \in Callers :
          /\ op[p] = "get_token_mut"
          /\ op[q] = "get_token"
          /\ pc[q] = "panicked"
          /\ result[q] = "panic"
          /\ view[q] = None

\* p's step in which the exchange of its operation fails
ExchangeFails(p) ==
    /\ pc[p] \in {"ar_exchange", "rt_exchange", "rq_exchange"}
    /\ pc'[p] \in {"idle", "panicked"}

\* C21: when the exchange of request_token, refresh_token or auto_reauth
\* fails, the store and the cache are not touched: the failing step leaves
\* them as they are, and with no other call made they are what they were
\* when the client was built.
C21_FailedExchangeTouchesNothing ==
    [][\A p \in Callers :
          ExchangeFails(p)
              => /\ token' = token
                 /\ cache' = cache
                 /\ calls = 1 => (token' = boot /\ cache' = None)]_vars

C21_Witness ==
    \E p \in Callers :
        /\ op[p] = "refresh_token"
        /\ pc[p] = "idle"
        /\ result[p] = "err"
        /\ calls = 1
        /\ exchanges = 1
        /\ config.token_cached
        /\ IsSome(boot)
        /\ token = boot
        /\ cache = None

\* every caller has made at most one call, and none of them an explicit
\* request_token or refresh_token
OnlyAutomatic ==
    /\ Cardinality({p \in Callers : op[p] # "none"}) = calls
    /\ \A p \in Callers :
          op[p] \in {"none", "get_token", "auto_reauth", "get_token_mut"}

\* C22: the token refetch_token(r) returns carries r as its refresh token
\* whatever the response carries, a rotated one included; so the store of a
\* client refreshed only by auto_reauth keeps the refresh token it was built
\* with.
C22_RefetchReturnsWhatWasSent ==
    /\ \A p \in Callers :
          (op[p] # "request_token" /\ IsSome(fetched[p]))
              => /\ IsSome(arg[p])
                 /\ Unwrap(fetched[p]).refresh_token = arg[p]
    /\ (OnlyAutomatic /\ Refreshable(boot))
          => Unwrap(token).refresh_token = Unwrap(boot).refresh_token

C22_Witness ==
    \E p \in Callers :
        /\ OnlyAutomatic
        /\ pc[p] = "ar_cache"
        /\ exchanges = 2
        /\ Unwrap(answer[p]).refresh_token = Some("rotated")
        /\ Unwrap(fetched[p]).refresh_token = Some("rtok")
        /\ Unwrap(token).refresh_token = Some("rtok")

\* p's step in which the cache write of its operation fails
CacheWriteFails(p) ==
    /\ pc[p] \in {"ar_cache", "rt_cache", "rq_cache"}
    /\ pc'[p] \in {"idle", "panicked"}
    /\ result'[p] # "ok"

\* what can be read from the file: nothing when there is no file
Content(file) == IF IsSome(file) THEN Unwrap(file) ELSE <<>>

\* C23: request_token, refresh_token and auto_reauth update the store before
\* they write the cache; when the cache write fails after a successful
\* exchange the operation fails, the store keeps the fetched token (no
\* rollback) and the cache file keeps the content it had.
C23_CacheFailureKeepsBoth ==
    /\ [](\A p \in Callers :
             pc[p] \in {"ar_cache", "rt_cache", "rq_cache"}
                 => /\ IsSome(token)
                    /\ pc[p] = "ar_cache" => token = fetched[p])
    /\ [][\A p \in Callers :
             CacheWriteFails(p)
                 => /\ token' = token
                    /\ Content(cache') = Content(cache)]_vars

----------------------------------------------------------------------------
(* Claims about the authorization handshake *)

\* C16: the authorize URL of the PKCE client carries code_challenge and
\* code_challenge_method=S256 next to client_id, response_type=code,
\* redirect_uri, scope and state, and the form request_token sends carries the
\* code verifier the client kept for that challenge.
C16_PkceChallengeAndVerifier ==
    /\ IsSome(url)
          => LET q == Unwrap(url).query
             IN  /\ {"client_id", "response_type", "redirect_uri", "scope",
                      "state", "code_challenge", "code_challenge_method"}
                        \subseteq DOMAIN q
                 /\ q["response_type"] = <<"code">>
                 /\ q["code_challenge_method"] = <<"S256">>
    /\ IsSome(form) => "code_verifier" \in DOMAIN Unwrap(form)

\* C17: the authorize URL of the PKCE client has no client secret parameter:
\* whatever the Credentials, no parameter is named client_secret and none has
\* the client secret as its value.
C17_NoSecretInAuthorizeUrl ==
    IsSome(url)
        => LET q == Unwrap(url).query
           IN  /\ "client_secret" \notin DOMAIN q
               /\ \A k \in DOMAIN q : q[k] # <<creds.secret>>
               /\ q["client_id"] = <<creds.id>>

C17_Witness ==
    /\ IsSome(url)
    /\ creds.secret = "hunter2"
    /\ Unwrap(url).query["client_id"] = <<"id">>
    /\ Unwrap(url).query["scope"] = <<"playlist", "user-read">>

\* the callback at hand is callback_url(shape, c, s, frag) and has been parsed
Parsed(shape, c, s, frag) ==
    /\ callback = Some(callback_url(shape, c, s, frag))
    /\ IsSome(code)

\* C18: a callback whose state parameter differs from the OAuth state of the
\* client is not parsed into a code: parse_response_code fails on it.
C18_StateMismatchFails ==
    \A shape \in Shapes, c \in Codes, s \in States, frag \in Fragments :
        (Parsed(shape, c, s, frag) /\ s # oauth.state)
            => Unwrap(code) = None

\* C19: parse_response_code on <redirect_uri>?code=C&state=S#fragment returns
\* exactly C: not the parameters that follow it, not the fragment.
C19_ParseReturnsTheCode ==
    \A c \in Codes, s \in States, frag \in Fragments :
        Parsed("code_state", c, s, frag) => Unwrap(code) = Some(<<c>>)

C19_Witness ==
    /\ Parsed("code_state", "AQD0yXvFEOvw", "sN", Some("_=_"))
    /\ Unwrap(callback) =
          <<"http://localhost:8888/callback", "?", "code", "=", "AQD0yXvFEOvw",
            "&", "state", "=", "sN", "#", "_=_">>
    /\ code = Some(Some(<<"AQD0yXvFEOvw">>))

----------------------------------------------------------------------------
(* Claims about Token over time *)

\* C24: for one Token and a clock that does not go backwards, is_expired()
\* is monotone: after it has answered true it answers true at every later
\* instant.
C24_ExpiredStaysExpired ==
    [][(/\ IsSome(expired)
        /\ IsSome(expired')
        /\ Unwrap(expired').tok = Unwrap(expired).tok
        /\ Unwrap(expired').at >= Unwrap(expired).at
        /\ Unwrap(expired).answer)
           => Unwrap(expired').answer]_vars

C24_Witness ==
    /\ IsSome(expired)
    /\ Unwrap(expired).answer
    /\ IsSome(Unwrap(expired).tok.expires_at)
    /\ Unwrap(expired).at
          >= Unwrap(Unwrap(expired).tok.expires_at) + 2 * TicksPerSecond

====
